---- MODULE Spec2Model ----
(***************************************************************************)
(* Model of src/samsoftn64emu0.1.py: the N64Memory address space, the      *)
(* MIPSR4300i interpreter core and the Cat64GUI command handlers that      *)
(* drive them.                                                             *)
(*                                                                         *)
(* Python integers are unbounded and the program's values reach 2^64 and   *)
(* beyond (pc and the link registers are never masked), so a value is      *)
(* modelled exactly, as the sequence of its base-256 digits, least         *)
(* significant first, with no leading zero digit: 0 is <<>>, 0x1234 is     *)
(* <<52, 18>>.  Small quantities (register indices, opcode fields, buffer  *)
(* offsets, the cycle counter) are plain integers.                         *)
(***************************************************************************)
EXTENDS Integers, Sequences, FiniteSets

(***************************************************************************)
(* Exact arithmetic on unbounded naturals (Python int).                    *)
(***************************************************************************)
Min(a, b) == IF a < b THEN a ELSE b

Max(a, b) == IF a < b THEN b ELSE a

Zero == << >>

\* 2^k for 0 <= k <= 8
Pow2(k) == CASE k = 0 -> 1 [] k = 1 -> 2 [] k = 2 -> 4 [] k = 3 -> 8 [] k = 4 -> 16
             [] k = 5 -> 32 [] k = 6 -> 64 [] k = 7 -> 128 [] OTHER -> 256

RECURSIVE LastNonZero(_, _)
\* the largest index up to i at which s is not 0, 0 when there is none
LastNonZero(s, i) == IF i = 0 THEN 0 ELSE IF s[i] # 0 THEN i ELSE LastNonZero(s, i - 1)

\* drop the leading (most significant) zero digits
Norm(s) == SubSeq(s, 1, LastNonZero(s, Len(s)))

Digit(a, i) == IF i <= Len(a) THEN a[i] ELSE 0

Rest(a) == IF a = << >> THEN a ELSE Tail(a)

RECURSIVE FromInt(_)
\* the value of a small integer literal
FromInt(n) == IF n = 0 THEN << >> ELSE <<n % 256>> \o FromInt(n \div 256)

RECURSIVE ToInt(_)
\* the integer of a value known to be small (below 2^31)
ToInt(a) == IF a = << >> THEN 0 ELSE a[1] + 256 * ToInt(Tail(a))

\* the 32-bit literal 0xb3b2b1b0
Hex32(b3, b2, b1, b0) == Norm(<<b0, b1, b2, b3>>)

RECURSIVE AddC(_, _, _)
AddC(a, b, c) ==
    IF a = << >> /\ b = << >>
    THEN (IF c = 0 THEN << >> ELSE <<c>>)
    ELSE LET s == Digit(a, 1) + Digit(b, 1) + c
         IN  <<s % 256>> \o AddC(Rest(a), Rest(b), s \div 256)

\* a + b
Add(a, b) == AddC(a, b, 0)

RECURSIVE MulSmallC(_, _, _)
MulSmallC(a, m, c) ==
    IF a = << >>
    THEN FromInt(c)
    ELSE LET s == a[1] * m + c
         IN  <<s % 256>> \o MulSmallC(Tail(a), m, s \div 256)

\* a * m for an integer 0 <= m <= 256
MulSmall(a, m) == Norm(MulSmallC(a, m, 0))

RECURSIVE Mul(_, _)
\* a * b
Mul(a, b) == IF b = << >> \/ a = << >> THEN << >>
             ELSE Add(MulSmall(a, b[1]), Norm(<<0>> \o Mul(a, Tail(b))))

\* a & (2^(8n) - 1)
MaskBytes(a, n) == Norm(SubSeq(a, 1, Min(n, Len(a))))

\* a & 0xFFFFFFFF and a & 0xFFFFFFFFFFFFFFFF
Mask32(a) == MaskBytes(a, 4)

Mask64(a) == MaskBytes(a, 8)

\* (a >> k) & (2^n - 1) as an integer, for 1 <= n <= 8: a bit field of a
Bits(a, k, n) ==
    LET i == k \div 8
        v == Digit(a, i + 1) + 256 * Digit(a, i + 2)
    IN  (v \div Pow2(k % 8)) % Pow2(n)

RECURSIVE BAnd(_, _)
\* bitwise and of two small integers
BAnd(x, y) == IF x = 0 \/ y = 0 THEN 0
              ELSE (x % 2) * (y % 2) + 2 * BAnd(x \div 2, y \div 2)

RECURSIVE BOr(_, _)
\* bitwise or of two small integers
BOr(x, y) == IF x = 0 THEN y
             ELSE IF y = 0 THEN x
             ELSE Max(x % 2, y % 2) + 2 * BOr(x \div 2, y \div 2)

\* a & b
And(a, b) == Norm([i \in 1..Min(Len(a), Len(b)) |-> BAnd(a[i], b[i])])

\* a | b
Or(a, b) == [i \in 1..Max(Len(a), Len(b)) |-> BOr(Digit(a, i), Digit(b, i))]

\* a << k, for an integer k >= 0
Shl(a, k) == MulSmall([i \in 1..(k \div 8) |-> 0] \o a, Pow2(k % 8))

\* a >> k, for an integer k >= 0
Shr(a, k) ==
    LET d == IF k \div 8 >= Len(a) THEN << >> ELSE SubSeq(a, (k \div 8) + 1, Len(a))
        r == k % 8
    IN  Norm([i \in 1..Len(d) |->
                (d[i] \div Pow2(r)) + (Digit(d, i + 1) % Pow2(r)) * Pow2(8 - r)])

RECURSIVE SubB(_, _, _, _)
\* the n low digits of a - b - c, the borrow out of the top digit dropped
SubB(a, b, c, n) ==
    IF n = 0 THEN << >>
    ELSE LET s == Digit(a, 1) - Digit(b, 1) - c
         IN  <<s % 256>> \o SubB(Rest(a), Rest(b), IF s < 0 THEN 1 ELSE 0, n - 1)

\* (a - b) & 0xFFFFFFFFFFFFFFFF: Python's & on a possibly negative difference
\* is the difference modulo 2^64
SubMask64(a, b) == Norm(SubB(a, b, 0, 8))

RECURSIVE LtD(_, _, _)
LtD(a, b, i) == IF i = 0 THEN FALSE
                ELSE IF a[i] # b[i] THEN a[i] < b[i]
                ELSE LtD(a, b, i - 1)

\* a < b
Lt(a, b) == IF Len(a) # Len(b) THEN Len(a) < Len(b) ELSE LtD(a, b, Len(a))

\* a <= b
Le(a, b) == a = b \/ Lt(a, b)


\* a - b, for a >= b
Sub(a, b) == Norm(SubB(a, b, 0, Len(a)))

(***************************************************************************)
(* N64Memory.  rdram is the 8 MiB bytearray, kept as the function from the *)
(* offsets of its non-zero bytes to those bytes (every other byte is 0).   *)
(* rom is the image bytearray, kept as its bytes up to the last non-zero   *)
(* one (every byte after them is 0) with its length in rom_len.            *)
(***************************************************************************)
RdramLen == 8388608

RomLen == 67108864

Z64 == "Z64 (Big-Endian)"

V64 == "V64 (Byte-swapped)"

N64 == "N64 (Little-Endian)"

Unknown == "Unknown"

\* Python's None, and a returned integer n
None == << >>

Some(n) == <<n>>

RomBase == Hex32(16, 0, 0, 0)

RomEnd == Hex32(20, 0, 0, 0)

KsegLo == Hex32(128, 0, 0, 0)

KsegHi == Hex32(191, 255, 255, 255)

PhysMask == Hex32(31, 255, 255, 255)

MemInit == [rdram |-> << >>, rom |-> << >>, rom_len |-> RomLen, endian_mode |-> Z64]

\* virtual_to_physical with the mask 0x1FFFFFFF of the segment branch left out
virtual_to_physical_unmapped(addr) == Mask32(addr)

virtual_to_physical(addr) ==
    LET a == Mask32(addr)
    IN  IF Le(KsegLo, a) /\ Le(a, KsegHi) THEN And(a, PhysMask) ELSE a

\* self.rdram[i] and self.rom[i], 0-based
RdramByte(m, i) == IF i \in DOMAIN m.rdram THEN m.rdram[i] ELSE 0

RomByte(m, i) == IF i < Len(m.rom) THEN m.rom[i + 1] ELSE 0

\* struct.unpack('>I', b)[0] and struct.pack('>I', v), b a sequence of 4 bytes
UnpackBE(b) == Norm(<<b[4], b[3], b[2], b[1]>>)

PackBE(v) == <<Digit(v, 4), Digit(v, 3), Digit(v, 2), Digit(v, 1)>>

\* struct.unpack('<I', b)[0]
UnpackLE(b) == Norm(<<b[1], b[2], b[3], b[4]>>)

\* whether read32/write32 take v = addr & 0xFFFFFFFF to lie in the image window
InRomWindow(v) == Le(RomBase, v) /\ Lt(v, RomEnd)

\* read32 with the bound p < len(self.rdram) in place of p + 4 <= len(self.rdram)
read32_short_bound(m, addr) ==
    LET v == Mask32(addr)
        q == IF InRomWindow(v) THEN ToInt(Sub(v, RomBase)) ELSE 0
        p == virtual_to_physical(addr)
    IN  IF InRomWindow(v) /\ q + 3 < m.rom_len
        THEN UnpackBE([k \in 1..4 |-> RomByte(m, q + k - 1)])
        ELSE IF Lt(p, FromInt(RdramLen))
        THEN UnpackBE([k \in 1..4 |-> RdramByte(m, ToInt(p) + k - 1)])
        ELSE Zero

read32(m, addr) ==
    LET v == Mask32(addr)
        q == IF InRomWindow(v) THEN ToInt(Sub(v, RomBase)) ELSE 0
        p == virtual_to_physical(addr)
    IN  IF InRomWindow(v) /\ q + 3 < m.rom_len
        THEN UnpackBE([k \in 1..4 |-> RomByte(m, q + k - 1)])
        ELSE IF Lt(Add(p, FromInt(3)), FromInt(RdramLen))
        THEN UnpackBE([k \in 1..4 |-> RdramByte(m, ToInt(p) + k - 1)])
        ELSE Zero

\* self.rdram[p:p+4] = b, for p + 3 < len(self.rdram)
StoreRdram(rdram, p, b) ==
    LET D == (DOMAIN rdram \ (p..(p + 3))) \cup {p + k - 1 : k \in {j \in 1..4 : b[j] # 0}}
    IN  [i \in D |-> IF i \in p..(p + 3) THEN b[i - p + 1] ELSE rdram[i]]

\* write32 without the early return for the image window: the word is stored
\* into the image where the image holds the four bytes
write32_into_rom(m, addr, val) ==
    LET v == Mask32(addr)
        q == IF InRomWindow(v) THEN ToInt(Sub(v, RomBase)) ELSE 0
        p == virtual_to_physical(addr)
        b == PackBE(Mask32(val))
    IN  IF InRomWindow(v)
        THEN IF q + 4 <= Len(m.rom)
             THEN [m EXCEPT !.rom = Norm([i \in 1..Len(@) |->
                                     IF i - q \in 1..4 THEN b[i - q] ELSE @[i]])]
             ELSE m
        ELSE IF Lt(Add(p, FromInt(3)), FromInt(RdramLen))
        THEN [m EXCEPT !.rdram = StoreRdram(@, ToInt(p), b)]
        ELSE m

write32(m, addr, val) ==
    LET v == Mask32(addr)
        p == virtual_to_physical(addr)
    IN  IF InRomWindow(v) THEN m
        ELSE IF Lt(Add(p, FromInt(3)), FromInt(RdramLen))
        THEN [m EXCEPT !.rdram = StoreRdram(@, ToInt(p), PackBE(Mask32(val)))]
        ELSE m

(***************************************************************************)
(* load_rom_data.  The bytes handed in are raw.bytes followed by raw.pad   *)
(* zero bytes; raw.pad > 0 only with Len(raw.bytes) a multiple of 4, so    *)
(* every 4-byte group lies in raw.bytes or is all zero.                    *)
(***************************************************************************)
RawLen(raw) == Len(raw.bytes) + raw.pad

RawByte(raw, i) == IF i < Len(raw.bytes) THEN raw.bytes[i + 1] ELSE 0

\* data[i:i+4] = data[i:i+4][::-1] for every i in range(0, len, 4) with i + 4 <= len
ReverseGroups(b) ==
    [i \in 1..Len(b) |->
        LET g == (i - 1) \div 4
        IN  IF 4 * g + 4 <= Len(b) THEN b[4 * g + 4 - ((i - 1) % 4)] ELSE b[i]]

\* the little-endian branch without its conversion loop
LittleToBigVerbatim(b) == b

\* data[i:i+4] = struct.pack('>I', struct.unpack('<I', data[i:i+4])[0]), likewise
LittleToBig(b) ==
    [i \in 1..Len(b) |->
        LET g == (i - 1) \div 4
        IN  IF 4 * g + 4 <= Len(b)
            THEN PackBE(UnpackLE(SubSeq(b, 4 * g + 1, 4 * g + 4)))[((i - 1) % 4) + 1]
            ELSE b[i]]

\* self.rom = data in place of the slice assignment: the image is replaced whole
CopyToRomWhole(m, b, pad) == [m EXCEPT !.rom = Norm(b), !.rom_len = Len(b) + pad]

\* self.rom[:n] = data, data being b followed by pad zero bytes, n = Len(b) + pad
CopyToRom(m, b, pad) ==
    LET n == Len(b) + pad
    IN  [m EXCEPT !.rom = IF Len(@) <= n THEN Norm(b)
                          ELSE b \o [i \in 1..pad |-> 0] \o SubSeq(@, n + 1, Len(@)),
                  !.rom_len = IF n <= @ THEN @ ELSE n]

\* load_rom_data without the return of its last branch: the bytes are copied
load_rom_data_copies(m, raw) ==
    LET fb == RawByte(raw, 0)
    IN  IF RawLen(raw) < 4 THEN [mem |-> m, ret |-> None]
        ELSE IF fb = 128
        THEN [mem |-> CopyToRom([m EXCEPT !.endian_mode = Z64], raw.bytes, raw.pad),
              ret |-> Some(RawLen(raw))]
        ELSE IF fb = 55
        THEN [mem |-> CopyToRom([m EXCEPT !.endian_mode = V64],
                                ReverseGroups(raw.bytes), raw.pad),
              ret |-> Some(RawLen(raw))]
        ELSE IF fb = 64
        THEN [mem |-> CopyToRom([m EXCEPT !.endian_mode = N64],
                                LittleToBig(raw.bytes), raw.pad),
              ret |-> Some(RawLen(raw))]
        ELSE [mem |-> CopyToRom([m EXCEPT !.endian_mode = Unknown], raw.bytes, raw.pad),
              ret |-> Some(RawLen(raw))]

load_rom_data(m, raw) ==
    LET fb == RawByte(raw, 0)
    IN  IF RawLen(raw) < 4 THEN [mem |-> m, ret |-> None]
        ELSE IF fb = 128
        THEN [mem |-> CopyToRom([m EXCEPT !.endian_mode = Z64], raw.bytes, raw.pad),
              ret |-> Some(RawLen(raw))]
        ELSE IF fb = 55
        THEN [mem |-> CopyToRom([m EXCEPT !.endian_mode = V64],
                                ReverseGroups(raw.bytes), raw.pad),
              ret |-> Some(RawLen(raw))]
        ELSE IF fb = 64
        THEN [mem |-> CopyToRom([m EXCEPT !.endian_mode = N64],
                                LittleToBig(raw.bytes), raw.pad),
              ret |-> Some(RawLen(raw))]
        ELSE [mem |-> [m EXCEPT !.endian_mode = Unknown], ret |-> None]


(***************************************************************************)
(* MIPSR4300i.  A CPU is the record of the object's fields; gpr maps       *)
(* 0..31 to the registers' values.                                         *)
(***************************************************************************)
BootPc == Hex32(164, 0, 0, 64)

SignBits == <<0, 0, 255, 255, 255, 255, 255, 255>>

SegMask == Hex32(240, 0, 0, 0)

CpuInit == [gpr |-> [i \in 0..31 |-> Zero],
            pc |-> BootPc,
            next_pc |-> Add(BootPc, FromInt(4)),
            hi |-> Zero,
            lo |-> Zero,
            cycles |-> 0,
            running |-> FALSE]

reset(c) == CpuInit

fetch(c, m) == read32(m, c.pc)

\* the fields decode_execute takes out of the instruction word
Decode(ins) ==
    LET imm == MaskBytes(ins, 2)
    IN  [op |-> Bits(ins, 26, 6),
         rs |-> Bits(ins, 21, 5),
         rt |-> Bits(ins, 16, 5),
         rd |-> Bits(ins, 11, 5),
         sh |-> Bits(ins, 6, 5),
         fn |-> Bits(ins, 0, 6),
         imm |-> imm,
         tgt |-> Norm(<<Digit(ins, 1), Digit(ins, 2), Digit(ins, 3), Bits(ins, 24, 2)>>),
         imm_se |-> IF Bits(imm, 15, 1) # 0 THEN Or(imm, SignBits) ELSE imm]

\* the jump target without the segment bits of the pc
JumpTargetNoSegment(c, tgt) == Shl(tgt, 2)

\* (self.pc & 0xF0000000) | (tgt << 2)
JumpTarget(c, tgt) == Or(And(c.pc, SegMask), Shl(tgt, 2))

\* self.pc + 4 + (imm_se << 2)
BranchTarget(c, imm_se) == Add(Add(c.pc, FromInt(4)), Shl(imm_se, 2))

\* self.pc + 8
LinkValue(c) == Add(c.pc, FromInt(8))

Sll(c, d) == [c EXCEPT !.gpr[d.rd] = Mask64(Shl(c.gpr[d.rt], d.sh))]

Srl(c, d) == [c EXCEPT !.gpr[d.rd] = Mask64(Shr(c.gpr[d.rt], d.sh))]

Jr(c, d) == [c EXCEPT !.next_pc = c.gpr[d.rs]]

\* the link register is written first: next_pc takes the register as written
Jalr(c, d) ==
    LET c1 == [c EXCEPT !.gpr[d.rd] = LinkValue(c)]
    IN  [c1 EXCEPT !.next_pc = c1.gpr[d.rs]]

Mflo(c, d) == [c EXCEPT !.gpr[d.rd] = c.lo]

\* MULTU with lo left unmasked
MultuWideLo(c, d) ==
    LET r == Mul(c.gpr[d.rs], c.gpr[d.rt])
    IN  [c EXCEPT !.lo = r, !.hi = Mask32(Shr(r, 32))]

Multu(c, d) ==
    LET r == Mul(c.gpr[d.rs], c.gpr[d.rt])
    IN  [c EXCEPT !.lo = Mask32(r), !.hi = Mask32(Shr(r, 32))]

AddReg(c, d) == [c EXCEPT !.gpr[d.rd] = Mask64(Add(c.gpr[d.rs], c.gpr[d.rt]))]

SubReg(c, d) == [c EXCEPT !.gpr[d.rd] = SubMask64(c.gpr[d.rs], c.gpr[d.rt])]

AndReg(c, d) == [c EXCEPT !.gpr[d.rd] = And(c.gpr[d.rs], c.gpr[d.rt])]

OrReg(c, d) == [c EXCEPT !.gpr[d.rd] = Or(c.gpr[d.rs], c.gpr[d.rt])]

\* _special with its last elif written as else
special_else_or(c, d) ==
    CASE d.fn = 0 -> Sll(c, d)
      [] d.fn = 2 -> Srl(c, d)
      [] d.fn = 8 -> Jr(c, d)
      [] d.fn = 9 -> Jalr(c, d)
      [] d.fn = 18 -> Mflo(c, d)
      [] d.fn = 24 -> Multu(c, d)
      [] d.fn \in {32, 33} -> AddReg(c, d)
      [] d.fn \in {34, 35} -> SubReg(c, d)
      [] d.fn = 36 -> AndReg(c, d)
      [] OTHER -> OrReg(c, d)

special(c, d) ==
    CASE d.fn = 0 -> Sll(c, d)
      [] d.fn = 2 -> Srl(c, d)
      [] d.fn = 8 -> Jr(c, d)
      [] d.fn = 9 -> Jalr(c, d)
      [] d.fn = 18 -> Mflo(c, d)
      [] d.fn = 24 -> Multu(c, d)
      [] d.fn \in {32, 33} -> AddReg(c, d)
      [] d.fn \in {34, 35} -> SubReg(c, d)
      [] d.fn = 36 -> AndReg(c, d)
      [] d.fn = 37 -> OrReg(c, d)
      [] OTHER -> c

Jump(c, d) == [c EXCEPT !.next_pc = JumpTarget(c, d.tgt)]

\* gpr[31] is written first; the target is taken from the pc, which it leaves alone
Jal(c, d) == [c EXCEPT !.gpr[31] = LinkValue(c), !.next_pc = JumpTarget(c, d.tgt)]

Branch(c, d) == [c EXCEPT !.next_pc = BranchTarget(c, d.imm_se)]

\* ADDI/ADDIU without the 64-bit mask
AddImmUnmasked(c, d) == [c EXCEPT !.gpr[d.rt] = Add(c.gpr[d.rs], d.imm_se)]

AddImm(c, d) == [c EXCEPT !.gpr[d.rt] = Mask64(Add(c.gpr[d.rs], d.imm_se))]

AndImm(c, d) == [c EXCEPT !.gpr[d.rt] = And(c.gpr[d.rs], d.imm)]

OrImm(c, d) == [c EXCEPT !.gpr[d.rt] = Or(c.gpr[d.rs], d.imm)]

Lui(c, d) == [c EXCEPT !.gpr[d.rt] = Mask64(Shl(d.imm, 16))]

Lw(c, m, d) == [c EXCEPT !.gpr[d.rt] = read32(m, Add(c.gpr[d.rs], d.imm_se))]

Sw(c, m, d) == write32(m, Add(c.gpr[d.rs], d.imm_se), c.gpr[d.rt])

\* the if/elif chain of decode_execute: the CPU and the memory it leaves
Execute(c, m, d) ==
    CASE d.op = 0 -> [cpu |-> special(c, d), mem |-> m]
      [] d.op = 2 -> [cpu |-> Jump(c, d), mem |-> m]
      [] d.op = 3 -> [cpu |-> Jal(c, d), mem |-> m]
      [] d.op = 4 /\ c.gpr[d.rs] = c.gpr[d.rt] -> [cpu |-> Branch(c, d), mem |-> m]
      [] d.op = 5 /\ c.gpr[d.rs] # c.gpr[d.rt] -> [cpu |-> Branch(c, d), mem |-> m]
      [] d.op \in {8, 9} -> [cpu |-> AddImm(c, d), mem |-> m]
      [] d.op = 12 -> [cpu |-> AndImm(c, d), mem |-> m]
      [] d.op = 13 -> [cpu |-> OrImm(c, d), mem |-> m]
      [] d.op = 15 -> [cpu |-> Lui(c, d), mem |-> m]
      [] d.op = 35 -> [cpu |-> Lw(c, m, d), mem |-> m]
      [] d.op = 43 -> [cpu |-> c, mem |-> Sw(c, m, d)]
      [] OTHER -> [cpu |-> c, mem |-> m]

\* self.gpr[0]=0
PinZero(c) == [c EXCEPT !.gpr[0] = Zero]

\* the counter advanced twice
CountCycleTwice(c) == [c EXCEPT !.cycles = @ + 2]

\* self.cycles+=1
CountCycle(c) == [c EXCEPT !.cycles = @ + 1]

\* decode_execute without its closing self.gpr[0]=0
decode_execute_unpinned(c, m, ins) ==
    LET r == Execute(PinZero(c), m, Decode(ins))
    IN  [cpu |-> CountCycle(r.cpu), mem |-> r.mem]

decode_execute(c, m, ins) ==
    LET r == Execute(PinZero(c), m, Decode(ins))
    IN  [cpu |-> CountCycle(PinZero(r.cpu)), mem |-> r.mem]

\* step without its last statement
AdvancePcOnly(c) == [c EXCEPT !.pc = c.next_pc]

\* self.pc=self.next_pc; self.next_pc=self.pc+4
Advance(c) == [c EXCEPT !.pc = c.next_pc, !.next_pc = Add(c.next_pc, FromInt(4))]

step(c, m) ==
    LET r == decode_execute(c, m, fetch(c, m))
    IN  [cpu |-> Advance(r.cpu), mem |-> r.mem]


(***************************************************************************)
(* Cat64GUI.tests: reset, then the scripted decode_execute calls, register *)
(* pokes and assertions; the first failed assertion ends the handler.      *)
(***************************************************************************)
\* one entry per assert: the registers poked, the words executed, the check
TestScript ==
    << [poke |-> << >>, words |-> <<Hex32(32, 1, 0, 100)>>,
        reg |-> 1, want |-> FromInt(100)],
       [poke |-> << >>, words |-> <<Hex32(52, 2, 255, 0)>>,
        reg |-> 2, want |-> FromInt(65280)],
       [poke |-> << >>, words |-> <<Hex32(0, 34, 24, 32)>>,
        reg |-> 3, want |-> FromInt(100 + 65280)],
       [poke |-> << >>, words |-> <<Hex32(0, 65, 32, 34)>>,
        reg |-> 4, want |-> FromInt(65280 - 100)],
       [poke |-> <<<<1, FromInt(61680)>>, <<2, FromInt(65280)>>>>,
        words |-> <<Hex32(0, 65, 40, 36)>>,
        reg |-> 5, want |-> FromInt(61440)],
       [poke |-> << >>, words |-> <<Hex32(60, 6, 18, 52)>>,
        reg |-> 6, want |-> Hex32(18, 52, 0, 0)],
       [poke |-> <<<<1, FromInt(100)>>, <<2, FromInt(200)>>>>,
        words |-> <<Hex32(0, 34, 0, 24), Hex32(0, 0, 24, 18)>>,
        reg |-> 3, want |-> FromInt(20000)] >>

RECURSIVE Poke(_, _)
Poke(c, ps) == IF ps = << >> THEN c
               ELSE Poke([c EXCEPT !.gpr[ps[1][1]] = ps[1][2]], Tail(ps))

RECURSIVE ExecWords(_, _, _)
ExecWords(c, m, ws) ==
    IF ws = << >> THEN [cpu |-> c, mem |-> m]
    ELSE LET r == decode_execute(c, m, ws[1]) IN ExecWords(r.cpu, r.mem, Tail(ws))

RECURSIVE RunScript(_, _, _)
RunScript(c, m, script) ==
    IF script = << >> THEN [cpu |-> c, mem |-> m, ok |-> TRUE]
    ELSE LET e == script[1]
             r == ExecWords(Poke(c, e.poke), m, e.words)
         IN  IF r.cpu.gpr[e.reg] = e.want
             THEN RunScript(r.cpu, r.mem, Tail(script))
             ELSE [cpu |-> r.cpu, mem |-> r.mem, ok |-> FALSE]

tests(c, m) == RunScript(reset(c), m, TestScript)

(***************************************************************************)
(* Cat64GUI.load_rom after the file was read: load_rom_data, and on        *)
(* success the entry point seeds pc and next_pc.                           *)
(***************************************************************************)
EntryAddr == Hex32(16, 0, 0, 52)

DefaultEntry == Hex32(16, 0, 4, 0)

load_rom(c, m, raw) ==
    LET r == load_rom_data(m, raw)
        entry == IF r.ret[1] > 56 THEN read32(r.mem, EntryAddr) ELSE DefaultEntry
    IN  IF r.ret = None
        THEN [cpu |-> c, mem |-> r.mem, ret |-> None]
        ELSE [cpu |-> [c EXCEPT !.pc = entry, !.next_pc = Add(entry, FromInt(4))],
              mem |-> r.mem, ret |-> r.ret]


(***************************************************************************)
(* The machine.  cpu and mem are the two objects; last records the         *)
(* operation that produced the state: its name, the instruction word it    *)
(* executed, the address, value or bytes it was handed and what it         *)
(* returned.  threads holds the loop threads that Cat64GUI.run starts, each *)
(* with its position in the loop; the specifications that take a step of   *)
(* the loop as one action leave it alone.                                  *)
(***************************************************************************)
VARIABLES cpu, mem, last, threads

vars == <<cpu, mem, last, threads>>

\* the cycle counter after Cat64GUI.tests: one per word of its script
TestCycles == 8

\* bound: at most MaxCycles instructions are executed after a reset or a self-test
MaxCycles == 2

\* bound: at most MaxThreads loop threads are started
MaxThreads == 2

\* the instructions executed since the last reset or self-test (MaxCycles < TestCycles)
Executed(c) == IF c.cycles >= TestCycles THEN c.cycles - TestCycles ELSE c.cycles

NoRaw == [bytes |-> << >>, pad |-> 0]

Call(op) ==
    [op |-> op, ins |-> Zero, addr |-> Zero, val |-> Zero, raw |-> NoRaw, ret |-> None,
     wrote |-> None]

\* instruction words, by format
RType(rs, rt, rd, sh, fn) ==
    Hex32(rs \div 8, (rs % 8) * 32 + rt, rd * 8 + sh \div 4, (sh % 4) * 64 + fn)

IType(op, rs, rt, imm) ==
    Hex32(op * 4 + rs \div 8, (rs % 8) * 32 + rt, imm \div 256, imm % 256)

JType(op, tgt) ==
    Hex32(op * 4 + tgt \div 16777216, (tgt \div 65536) % 256, (tgt \div 256) % 256, tgt % 256)

\* the instruction words a driver hands to decode_execute
Words ==
    { IType(9, 0, 1, 65535),      \* ADDIU r1, r0, -1
      IType(8, 0, 2, 100),        \* ADDI  r2, r0, 100
      IType(8, 1, 2, 1),          \* ADDI  r2, r1, 1
      IType(9, 0, 0, 5),          \* ADDIU r0, r0, 5
      IType(9, 0, 8, 65532),      \* ADDIU r8, r0, -4
      IType(15, 0, 7, 4096),      \* LUI   r7, 0x1000
      IType(13, 1, 3, 65280),     \* ORI   r3, r1, 0xFF00
      IType(12, 1, 3, 3855),      \* ANDI  r3, r1, 0x0F0F
      RType(1, 2, 3, 0, 32),      \* ADD   r3, r1, r2
      RType(1, 1, 3, 0, 33),      \* ADDU  r3, r1, r1
      RType(0, 1, 3, 0, 34),      \* SUB   r3, r0, r1
      RType(2, 1, 3, 0, 35),      \* SUBU  r3, r2, r1
      RType(1, 2, 3, 0, 36),      \* AND   r3, r1, r2
      RType(1, 2, 3, 0, 37),      \* OR    r3, r1, r2
      RType(0, 1, 3, 4, 0),       \* SLL   r3, r1, 4
      RType(0, 1, 3, 4, 2),       \* SRL   r3, r1, 4
      RType(1, 2, 0, 0, 24),      \* MULTU r1, r2
      RType(6, 1, 0, 0, 24),      \* MULTU r6, r1
      RType(0, 0, 3, 0, 18),      \* MFLO  r3
      RType(0, 0, 0, 0, 18),      \* MFLO  r0
      RType(1, 0, 0, 0, 8),       \* JR    r1
      RType(1, 0, 3, 0, 9),       \* JALR  r3, r1
      RType(1, 0, 0, 0, 9),       \* JALR  r0, r1
      RType(1, 0, 1, 0, 9),       \* JALR  r1, r1
      JType(2, 16777232),         \* J     0x1000010
      JType(3, 16777232),         \* JAL   0x1000010
      IType(4, 0, 0, 65534),      \* BEQ   r0, r0, -2
      IType(5, 1, 0, 3),          \* BNE   r1, r0, 3
      IType(35, 7, 3, 0),         \* LW    r3, 0(r7)
      IType(35, 7, 0, 0),         \* LW    r0, 0(r7)
      IType(35, 8, 8, 0),         \* LW    r8, 0(r8)
      IType(43, 7, 7, 0),         \* SW    r7, 0(r7)
      IType(43, 8, 8, 0),         \* SW    r8, 0(r8)
      IType(63, 1, 2, 4660),      \* opcode 0x3F
      IType(1, 1, 2, 5),          \* opcode 0x01
      RType(1, 2, 3, 0, 16),      \* function 0x10
      RType(1, 2, 3, 0, 12) }     \* function 0x0C

\* a big-endian image of 64 bytes: header, entry point at 0x34, words at 0x38, 0x3C
Image(entry, w38, w3C) ==
    <<128, 55, 18, 64>> \o [i \in 1..48 |-> 0] \o PackBE(entry)
        \o PackBE(w38) \o PackBE(w3C)

\* entry point 0x1000003C: J 0xE, a jump back to 0x10000038, which holds a word
\* of opcode 0x3F
Program == Image(Hex32(16, 0, 0, 60), IType(63, 1, 2, 4660), JType(2, 14))

Bytes(b) == [bytes |-> b, pad |-> 0]

\* the files loaded while the CPU is driven: one too short, and the program
Programs == { Bytes(<<128, 55, 18>>), Bytes(Program) }

\* the files a driver hands to load_rom
Raws ==
    { Bytes(<< >>), Bytes(<<128, 55, 18>>), Bytes(<<18, 52, 86, 120, 154>>),
      Bytes(<<128, 55, 18, 64>>), Bytes(<<128, 55, 18, 64, 7>>),
      Bytes(<<64, 18, 55, 128, 7>>), Bytes(<<55, 128, 64, 18, 1, 2, 3, 4>>),
      Bytes(<<55, 128, 64, 18, 1, 2, 3, 4, 9>>),
      Bytes(Program),
      \* one byte more than the image holds: a header followed by zero bytes
      [bytes |-> <<128, 55, 18, 64>>, pad |-> RomLen - 3] }

Threads == 1..MaxThreads

\* a loop thread: at is its position, ins the word its step has fetched.  The
\* rest records its history: begun counts the steps it has begun with the flag
\* clear since run last set the flag, during is the one command that ran since
\* its step in flight began, or "none" or "many"
NoThread == [at |-> "unstarted", ins |-> Zero, begun |-> 0, during |-> "none"]

Init ==
    /\ cpu = CpuInit
    /\ mem = MemInit
    /\ last = Call("init")
    /\ threads = [t \in Threads |-> NoThread]

\* Cat64GUI.reset
GuiReset ==
    /\ threads' = threads
    /\ cpu' = reset(cpu)
    /\ mem' = mem
    /\ last' = Call("reset")

\* Cat64GUI.step
GuiStep ==
    /\ threads' = threads
    /\ Executed(cpu) < MaxCycles
    /\ LET r == step(cpu, mem)
       IN  /\ cpu' = r.cpu
           /\ mem' = r.mem
    /\ last' = [Call("step") EXCEPT !.ins = fetch(cpu, mem)]

\* Cat64GUI.run: the flag is set and the loop thread started
GuiRun ==
    /\ threads' = threads
    /\ ~cpu.running
    /\ cpu' = [cpu EXCEPT !.running = TRUE]
    /\ mem' = mem
    /\ last' = Call("run")

\* one pass of the loop thread of Cat64GUI.run
LoopStep ==
    /\ threads' = threads
    /\ cpu.running
    /\ Executed(cpu) < MaxCycles
    /\ LET r == step(cpu, mem)
       IN  /\ cpu' = r.cpu
           /\ mem' = r.mem
    /\ last' = [Call("step") EXCEPT !.ins = fetch(cpu, mem)]

\* Cat64GUI.stop
GuiStop ==
    /\ threads' = threads
    /\ cpu' = [cpu EXCEPT !.running = FALSE]
    /\ mem' = mem
    /\ last' = Call("stop")

\* Cat64GUI.load_rom with the file's bytes
GuiLoadRom(raw) ==
    /\ threads' = threads
    /\ LET r == load_rom(cpu, mem, raw)
       IN  /\ cpu' = r.cpu
           /\ mem' = r.mem
           /\ last' = [Call("load") EXCEPT !.raw = raw, !.ret = r.ret]

\* N64Memory.load_rom_data called with the bytes: a method of the memory, which
\* holds no reference to the CPU
LoadRomData(raw) ==
    /\ threads' = threads
    /\ LET r == load_rom_data(mem, raw)
       IN  /\ mem' = r.mem
           /\ last' = [Call("load_rom_data") EXCEPT !.raw = raw, !.ret = r.ret]
    /\ cpu' = cpu

\* Cat64GUI.tests
GuiTests ==
    /\ threads' = threads
    /\ LET r == tests(cpu, mem)
       IN  /\ cpu' = r.cpu
           /\ mem' = r.mem
           /\ last' = [Call("tests") EXCEPT !.ret = IF r.ok THEN Some(1) ELSE None]

\* MIPSR4300i.decode_execute called with a word, as the self-test calls it
DecodeExecute(ins) ==
    /\ threads' = threads
    /\ Executed(cpu) < MaxCycles
    /\ LET r == decode_execute(cpu, mem, ins)
       IN  /\ cpu' = r.cpu
           /\ mem' = r.mem
    /\ last' = [Call("exec") EXCEPT !.ins = ins]

\* N64Memory.read32 called with an address; wrote records the address and the
\* value of the write32 call it directly follows, if it follows one
Read32(a) ==
    /\ threads' = threads
    /\ cpu' = cpu
    /\ mem' = mem
    /\ last' = [Call("read32") EXCEPT
                    !.addr = a,
                    !.ret = Some(read32(mem, a)),
                    !.wrote = IF last.op = "write32" THEN <<last.addr, last.val>> ELSE None]

\* N64Memory.write32 called with an address and a value
Write32(a, v) ==
    /\ threads' = threads
    /\ cpu' = cpu
    /\ mem' = write32(mem, a, v)
    /\ last' = [Call("write32") EXCEPT !.addr = a, !.val = v]

\* the addresses and values handed to read32 and write32
Addrs ==
    { Zero,                                   \* first word of rdram
      Hex32(0, 127, 255, 252),                \* last word of rdram
      Hex32(0, 127, 255, 253),                \* one byte short of a word
      Hex32(0, 128, 0, 0),                    \* first offset past rdram
      Hex32(128, 0, 0, 0),                    \* cached segment, offset 0
      Hex32(160, 0, 0, 0),                    \* uncached segment, offset 0
      Hex32(160, 127, 255, 253),              \* uncached, one byte short
      Hex32(128, 127, 255, 252),              \* cached, the last word of rdram
      Hex32(164, 0, 0, 64),                   \* the boot vector
      Hex32(16, 0, 0, 0),                     \* image window, first word
      Hex32(16, 0, 0, 60),                    \* image window, the program's word
      Hex32(19, 255, 255, 252),               \* image window, last word
      Hex32(19, 255, 255, 253),               \* image window, one byte short
      Hex32(20, 0, 0, 0),                     \* first address past the window
      Hex32(192, 0, 0, 0),                    \* first address past the segments
      Hex32(255, 255, 255, 255),
      <<0, 0, 0, 0, 1>>,                      \* 2^32: address 0 after masking
      <<0, 0, 0, 16, 1>>,                     \* 2^32 + 0x10000000
      <<252, 255, 255, 255, 255, 255, 255, 255>> }

Vals == { Hex32(17, 34, 51, 68), <<221, 204, 187, 170, 1>>, Zero }

\* programs of two words at 0x10000038 and 0x1000003C, entered at either
FlowBodies ==
    { <<JType(3, 16), IType(4, 0, 0, 65534)>>,          \* JAL 0x10;      BEQ r0, r0, -2
      <<IType(5, 1, 0, 3), IType(4, 1, 2, 65532)>>,     \* BNE r1, r0, 3; BEQ r1, r2, -4
      <<RType(1, 0, 0, 0, 8), RType(1, 0, 1, 0, 9)>>,   \* JR r1;         JALR r1, r1
      <<RType(1, 0, 3, 0, 9), RType(0, 0, 0, 0, 9)>> }  \* JALR r3, r1;   JALR r0, r0

FlowPrograms ==
    { Bytes(Image(Hex32(16, 0, 0, e), b[1], b[2])) : e \in {56, 60}, b \in FlowBodies }

\* the words that set the registers the programs branch on and jump through
FlowWords ==
    { IType(9, 0, 1, 65535),      \* ADDIU r1, r0, -1
      IType(8, 0, 2, 100),        \* ADDI  r2, r0, 100
      IType(15, 0, 1, 4096) }     \* LUI   r1, 0x1000

\* the interpreter core under the commands that drive it
Next ==
    \/ GuiReset
    \/ GuiStep
    \/ GuiRun
    \/ LoopStep
    \/ GuiStop
    \/ GuiTests
    \/ \E raw \in Programs : GuiLoadRom(raw)
    \/ \E ins \in Words : DecodeExecute(ins)

Spec == Init /\ [][Next]_vars


\* the address space under direct reads and writes and loads of the program
NextMem ==
    \/ \E a \in Addrs : Read32(a)
    \/ \E a \in Addrs, v \in Vals : Write32(a, v)
    \/ \E raw \in Programs : GuiLoadRom(raw)

SpecMem == Init /\ [][NextMem]_vars

\* branches and jumps fetched from a loaded program by step
NextFlow ==
    \/ \E raw \in FlowPrograms : GuiLoadRom(raw)
    \/ \E ins \in FlowWords : DecodeExecute(ins)
    \/ GuiStep
    \/ GuiReset

SpecFlow == Init /\ [][NextFlow]_vars

\* image loading, with the steps that run the loaded program
NextLoad ==
    \/ \E raw \in Raws : GuiLoadRom(raw)
    \/ \E raw \in Raws : LoadRomData(raw)
    \/ GuiStep
    \/ GuiReset

SpecLoad == Init /\ [][NextLoad]_vars


(***************************************************************************)
(* The loop thread of Cat64GUI.run, statement by statement, under the      *)
(* commands of the foreground.  The two run in different threads with no   *)
(* lock: a command may run between any two statements of the loop.         *)
(***************************************************************************)
Live(th) == th.at \notin {"unstarted", "done"}

\* between the fetch of a step and its last statement
InStep(th) == th.at \in {"execute", "set_pc", "set_next"}

\* the history of the steps in flight when the command op runs
Noted(ths, op) ==
    [t \in Threads |->
        IF InStep(ths[t])
        THEN [ths[t] EXCEPT !.during = IF @ = "none" THEN op ELSE "many"]
        ELSE ths[t]]

\* the history of the other threads' steps in flight when thread t writes the CPU
Crossed(ths, t) ==
    [u \in Threads |->
        IF u # t /\ InStep(ths[u]) THEN [ths[u] EXCEPT !.during = "many"] ELSE ths[u]]

\* the loop test taken as true whatever the flag
LoopTestIgnoresFlag(t) ==
    /\ threads[t].at = "while"
    /\ Executed(cpu) < MaxCycles
    /\ threads' = [threads EXCEPT ![t].at = "fetch"]
    /\ cpu' = cpu
    /\ mem' = mem
    /\ last' = Call("loop")

\* while self.cpu.running: no new pass is begun past the bound of the model
LoopTest(t) ==
    /\ threads[t].at = "while"
    /\ cpu.running => Executed(cpu) < MaxCycles
    /\ threads' = [threads EXCEPT ![t].at = IF cpu.running THEN "fetch" ELSE "done"]
    /\ cpu' = cpu
    /\ mem' = mem
    /\ last' = Call("loop")

\* self.cpu.step(): ins=self.fetch()
LoopFetch(t) ==
    /\ threads[t].at = "fetch"
    /\ threads' = [threads EXCEPT
                      ![t].at = "execute",
                      ![t].ins = fetch(cpu, mem),
                      ![t].begun = IF cpu.running THEN @ ELSE @ + 1,
                      ![t].during = IF \E u \in Threads \ {t} : Live(threads[u])
                                    THEN "many" ELSE "none"]
    /\ cpu' = cpu
    /\ mem' = mem
    /\ last' = Call("loop")

\* self.decode_execute(ins)
LoopExecute(t) ==
    /\ threads[t].at = "execute"
    /\ LET r == decode_execute(cpu, mem, threads[t].ins)
       IN  /\ cpu' = r.cpu
           /\ mem' = r.mem
    /\ threads' = [Crossed(threads, t) EXCEPT ![t].at = "set_pc"]
    /\ last' = Call("loop")

\* self.pc=self.next_pc
LoopSetPc(t) ==
    /\ threads[t].at = "set_pc"
    /\ cpu' = [cpu EXCEPT !.pc = cpu.next_pc]
    /\ mem' = mem
    /\ threads' = [Crossed(threads, t) EXCEPT ![t].at = "set_next"]
    /\ last' = Call("loop")

\* self.next_pc=self.pc+4
LoopSetNext(t) ==
    /\ threads[t].at = "set_next"
    /\ cpu' = [cpu EXCEPT !.next_pc = Add(cpu.pc, FromInt(4))]
    /\ mem' = mem
    /\ threads' = [Crossed(threads, t) EXCEPT ![t].at = "sleep"]
    /\ last' = Call("loop")

\* time.sleep(0.01) returns
LoopWake(t) ==
    /\ threads[t].at = "sleep"
    /\ threads' = [threads EXCEPT ![t].at = "while"]
    /\ cpu' = cpu
    /\ mem' = mem
    /\ last' = Call("loop")

\* Cat64GUI.run: nothing if the flag is set; else the flag is set and a thread started
RunCmd ==
    /\ ~cpu.running
    /\ \E t \in Threads :
          /\ threads[t].at = "unstarted"
          /\ \A u \in Threads : u < t => threads[u].at # "unstarted"
          /\ threads' = [u \in Threads |->
                            IF u = t THEN [NoThread EXCEPT !.at = "while"]
                            ELSE [Noted(threads, "run")[u] EXCEPT !.begun = 0]]
    /\ cpu' = [cpu EXCEPT !.running = TRUE]
    /\ mem' = mem
    /\ last' = Call("run")

\* Cat64GUI.stop
StopCmd ==
    /\ cpu' = [cpu EXCEPT !.running = FALSE]
    /\ mem' = mem
    /\ threads' = Noted(threads, "stop")
    /\ last' = Call("stop")

\* Cat64GUI.reset
ResetCmd ==
    /\ cpu' = reset(cpu)
    /\ mem' = mem
    /\ threads' = Noted(threads, "reset")
    /\ last' = Call("reset")

\* Cat64GUI.step
StepCmd ==
    /\ Executed(cpu) < MaxCycles
    /\ LET r == step(cpu, mem)
       IN  /\ cpu' = r.cpu
           /\ mem' = r.mem
    /\ threads' = Noted(threads, "step")
    /\ last' = [Call("step") EXCEPT !.ins = fetch(cpu, mem)]

\* the next statement of thread t
ThreadStep(t) ==
    \/ LoopTest(t)
    \/ LoopFetch(t)
    \/ LoopExecute(t)
    \/ LoopSetPc(t)
    \/ LoopSetNext(t)
    \/ LoopWake(t)

NextThreads ==
    \/ RunCmd
    \/ StopCmd
    \/ ResetCmd
    \/ StepCmd
    \/ \E t \in Threads : ThreadStep(t)

\* a started thread is scheduled again and again: weak fairness of each of its
\* statements.  That of the fetch is WF_vars(LoopFetch(t)) written out,
\* ENABLED <<LoopFetch(t)>>_vars being threads[t].at = "fetch"
Scheduled(t) ==
    /\ WF_vars(LoopTest(t))
    /\ []<>(threads[t].at # "fetch") \/ []<><<LoopFetch(t)>>_vars
    /\ WF_vars(LoopExecute(t))
    /\ WF_vars(LoopSetPc(t))
    /\ WF_vars(LoopSetNext(t))
    /\ WF_vars(LoopWake(t))

SpecThreads == Init /\ [][NextThreads]_vars /\ \A t \in Threads : Scheduled(t)


(***************************************************************************)
(* The statements checked.  The fields of an instruction word are taken    *)
(* from its bits as the instruction set lays them out.                     *)
(***************************************************************************)
OpOf(w) == Bits(w, 26, 6)

FnOf(w) == Bits(w, 0, 6)

RsOf(w) == Bits(w, 21, 5)

RtOf(w) == Bits(w, 16, 5)

RdOf(w) == Bits(w, 11, 5)

\* the 16-bit immediate as a signed integer
SImmOf(w) ==
    LET u == Digit(w, 1) + 256 * Digit(w, 2)
    IN  IF u >= 32768 THEN u - 65536 ELSE u

\* the 26-bit target field
TargetOf(w) == Norm(<<Digit(w, 1), Digit(w, 2), Digit(w, 3), Digit(w, 4) % 4>>)

\* (a + s) mod 2^64 for a signed integer s
PlusSigned(a, s) ==
    IF s >= 0 THEN Mask64(Add(a, FromInt(s))) ELSE SubMask64(a, FromInt(0 - s))

\* the operation that produced the state executed one instruction word
Executes(l) == l.op \in {"step", "exec"}

\* the primary opcodes and the function codes decode_execute and _special act on
KnownOps == {0, 2, 3, 4, 5, 8, 9, 12, 13, 15, 35, 43}

KnownFns == {0, 2, 8, 9, 18, 24, 32, 33, 34, 35, 36, 37}

Unrecognized(w) == OpOf(w) \notin KnownOps \/ (OpOf(w) = 0 /\ FnOf(w) \notin KnownFns)

\* C1: general register 0 holds 0 in every state, so after every step and
\* every executed word, whatever the word's destination index
C1_ZeroRegister == cpu.gpr[0] = Zero

\* a word loaded from address r7 = 0x10000000 of a loaded image (first word
\* 0x80371240) into register 0 has just been executed
C1_Witness ==
    /\ last.op = "exec"
    /\ last.ins = IType(35, 7, 0, 0)
    /\ cpu.gpr[7] = RomBase
    /\ read32(mem, RomBase) = Hex32(128, 55, 18, 64)

C3_UnknownIsNoOp ==
    [][(Executes(last') /\ Unrecognized(last'.ins))
          => /\ cpu'.gpr = cpu.gpr
             /\ cpu'.hi = cpu.hi
             /\ cpu'.lo = cpu.lo
             /\ cpu'.running = cpu.running
             /\ mem' = mem
             /\ cpu'.cycles = cpu.cycles + 1
             /\ last'.op = "step" => /\ cpu'.pc = cpu.next_pc
                                     /\ cpu'.next_pc = Add(cpu'.pc, FromInt(4))
             /\ last'.op = "exec" => /\ cpu'.pc = cpu.pc
                                     /\ cpu'.next_pc = cpu.next_pc]_vars

\* a step has fetched the program's word of opcode 0x3F at 0x10000038
C3_Witness ==
    /\ last.op = "step"
    /\ last.ins = IType(63, 1, 2, 4660)
    /\ Unrecognized(last.ins)
    /\ cpu.pc = Hex32(16, 0, 0, 60)
    /\ cpu.cycles = 2

\* (U << 28) | (T << 2), U the bits 31:28 of pc and T the word's target field
C4_Target(pc, w) == Add(Shl(FromInt(Bits(pc, 28, 4)), 28), Shl(TargetOf(w), 2))

\* C4: a step that executes J ends with pc = (U << 28) | (T << 2) and
\* next_pc = pc + 4, so that the next fetch is from the target; decode_execute
\* alone leaves that target in next_pc
C4_Jump ==
    [][(Executes(last') /\ OpOf(last'.ins) = 2)
          => /\ last'.op = "step" => /\ cpu'.pc = C4_Target(cpu.pc, last'.ins)
                                     /\ cpu'.next_pc = Add(cpu'.pc, FromInt(4))
                                     /\ fetch(cpu', mem') = read32(mem, C4_Target(cpu.pc, last'.ins))
             /\ last'.op = "exec" => /\ cpu'.next_pc = C4_Target(cpu.pc, last'.ins)
                                     /\ cpu'.pc = cpu.pc]_vars

\* a step has executed the program's J 0xE at 0x1000003C: pc is 0x10000038
C4_Witness ==
    /\ last.op = "step"
    /\ last.ins = JType(2, 14)
    /\ cpu.pc = Hex32(16, 0, 0, 56)
    /\ cpu.next_pc = Hex32(16, 0, 0, 60)

\* C5: every step and every decode_execute adds exactly 1 to cycles; reset
\* sets it to 0; the self-test, a reset followed by TestCycles calls of
\* decode_execute, leaves TestCycles; no other operation changes it
C5_Cycles ==
    [][/\ Executes(last') => cpu'.cycles = cpu.cycles + 1
       /\ last'.op = "reset" => cpu'.cycles = 0
       /\ last'.op = "tests" => cpu'.cycles = TestCycles
       /\ last'.op \notin {"step", "exec", "reset", "tests"} => cpu'.cycles = cpu.cycles
       /\ cpu'.cycles < cpu.cycles => last'.op \in {"reset", "tests"}]_vars

\* the second step after a reset has returned
C5_Witness ==
    /\ last.op = "step"
    /\ cpu.cycles = 2
    /\ cpu.pc = Add(BootPc, FromInt(8))

\* C6: the image changes under no operation but a load: no step, whatever it
\* executes (SW into the image window included), no executed word, no reset,
\* no self-test
C6_ImageImmutable ==
    [][(mem'.rom # mem.rom \/ mem'.rom_len # mem.rom_len) => last'.op = "load"]_vars

\* SW r7, 0(r7) has been executed with r7 = 0x10000000 and the program loaded
C6_Witness ==
    /\ last.op = "exec"
    /\ last.ins = IType(43, 7, 7, 0)
    /\ cpu.gpr[7] = RomBase
    /\ mem.rom = Program

\* the address is not served by the image window, and its physical offset p
\* does not satisfy p + 4 <= size of working memory
C7_OutOfRange(m, a) ==
    LET v == Mask32(a)
        p == virtual_to_physical(a)
    IN  /\ ~(InRomWindow(v) /\ Le(Add(Sub(v, RomBase), FromInt(4)), FromInt(m.rom_len)))
        /\ ~Le(Add(p, FromInt(4)), FromInt(RdramLen))

\* C7: at an address the image window does not serve and whose physical
\* offset is out of range, read32 returns 0 and write32 changes neither buffer
C7_OutOfRangeAccess ==
    [][/\ (last'.op = "read32" /\ C7_OutOfRange(mem, last'.addr)) => last'.ret = Some(Zero)
       /\ (last'.op = "write32" /\ C7_OutOfRange(mem, last'.addr)) => mem' = mem]_vars

\* 0xA07FFFFD, one byte short of a word at the end of working memory, has been
\* read while the three bytes it covers are not zero
C7_Witness ==
    /\ last.op = "read32"
    /\ last.addr = Hex32(160, 127, 255, 253)
    /\ C7_OutOfRange(mem, last.addr)
    /\ last.ret = Some(Zero)
    /\ RdramByte(mem, RdramLen - 1) # 0

\* B has first byte 0x80 and its group-reversed form first byte 0x40
C8_Pair(raw) ==
    /\ raw.pad = 0
    /\ Len(raw.bytes) >= 4
    /\ raw.bytes[1] = 128
    /\ ReverseGroups(raw.bytes)[1] = 64

\* C8: loading B, of first byte 0x80, and loading L, its form with every
\* complete aligned 4-byte group reversed and of first byte 0x40, into the same
\* image both succeed and leave the same image
C8_RoundTrip ==
    [][(last'.op = "load" /\ C8_Pair(last'.raw))
          => LET l == load_rom_data(mem, Bytes(ReverseGroups(last'.raw.bytes)))
             IN  /\ last'.ret = Some(Len(last'.raw.bytes))
                 /\ l.ret = last'.ret
                 /\ l.mem.rom = mem'.rom
                 /\ l.mem.rom_len = mem'.rom_len]_vars

\* the five bytes 80 37 12 40 07 have been loaded over a longer image
C8_Witness ==
    /\ last.op = "load"
    /\ last.raw = Bytes(<<128, 55, 18, 64, 7>>)
    /\ C8_Pair(last.raw)
    /\ Len(mem.rom) > 5

\* the register file after an instruction has set register d to the value v
C9_Set(gpr, d, v) == [gpr EXCEPT ![d] = v]

\* the sum or difference the word w computes from the registers gpr, and the
\* index of its destination
C9_Value(gpr, w) ==
    IF OpOf(w) \in {8, 9} THEN PlusSigned(gpr[RsOf(w)], SImmOf(w))
    ELSE IF FnOf(w) \in {32, 33} THEN Mask64(Add(gpr[RsOf(w)], gpr[RtOf(w)]))
    ELSE SubMask64(gpr[RsOf(w)], gpr[RtOf(w)])

C9_Dest(w) == IF OpOf(w) \in {8, 9} THEN RtOf(w) ELSE RdOf(w)

C9_Arith(w) == OpOf(w) \in {8, 9} \/ (OpOf(w) = 0 /\ FnOf(w) \in {32, 33, 34, 35})

\* C9 as stated: ADDI/ADDIU set rt to (rs + s) mod 2^64, ADD/ADDU set rd to
\* (rs + rt) mod 2^64 and SUB/SUBU set rd to (rs - rt) mod 2^64, whatever the
\* destination index, and change no other register, nor hi, lo or memory
C9_WrapsAnyDest ==
    [][(Executes(last') /\ C9_Arith(last'.ins))
          => /\ cpu'.gpr = C9_Set(cpu.gpr, C9_Dest(last'.ins), C9_Value(cpu.gpr, last'.ins))
             /\ cpu'.hi = cpu.hi
             /\ cpu'.lo = cpu.lo
             /\ mem' = mem]_vars

\* C9, amended: with a destination index other than 0 the destination is set
\* to that value; with destination index 0 register 0 stays 0; in both cases
\* no other register, nor hi, lo or memory changes
C9_Wraps ==
    [][(Executes(last') /\ C9_Arith(last'.ins))
          => /\ cpu'.gpr = IF C9_Dest(last'.ins) = 0 THEN cpu.gpr
                           ELSE C9_Set(cpu.gpr, C9_Dest(last'.ins),
                                       C9_Value(cpu.gpr, last'.ins))
             /\ cpu'.hi = cpu.hi
             /\ cpu'.lo = cpu.lo
             /\ mem' = mem]_vars

\* ADDI r2, r1, 1 has been executed with r1 = 2^64 - 1: the sum has wrapped to 0
C9_Witness ==
    /\ last.op = "exec"
    /\ last.ins = IType(8, 1, 2, 1)
    /\ cpu.gpr[1] = <<255, 255, 255, 255, 255, 255, 255, 255>>
    /\ cpu.gpr[2] = Zero

C10_IsMultu(l) == Executes(l) /\ OpOf(l.ins) = 0 /\ FnOf(l.ins) = 24

C10_IsMflo(l) == Executes(l) /\ OpOf(l.ins) = 0 /\ FnOf(l.ins) = 18

C10_Product(gpr, w) == Mul(gpr[RsOf(w)], gpr[RtOf(w)])

\* C10: MULTU leaves lo = (rs * rt) mod 2^32 and hi = ((rs * rt) div 2^32) mod
\* 2^32 and changes no general register; MFLO sets rd, for rd other than 0, to
\* lo and changes neither hi nor lo; MFLO right after MULTU so leaves rd equal
\* to the low 32 bits of the product
C10_MultuMflo ==
    [][/\ C10_IsMultu(last')
            => /\ cpu'.lo = Mask32(C10_Product(cpu.gpr, last'.ins))
               /\ cpu'.hi = Mask32(Shr(C10_Product(cpu.gpr, last'.ins), 32))
               /\ cpu'.gpr = cpu.gpr
       /\ C10_IsMflo(last')
            => /\ RdOf(last'.ins) # 0 => cpu'.gpr = C9_Set(cpu.gpr, RdOf(last'.ins), cpu.lo)
               /\ cpu'.hi = cpu.hi
               /\ cpu'.lo = cpu.lo
       /\ (C10_IsMultu(last) /\ C10_IsMflo(last') /\ RdOf(last'.ins) # 0)
            => cpu'.gpr[RdOf(last'.ins)] = Mask32(C10_Product(cpu.gpr, last.ins))]_vars

\* MFLO r3 has been executed after MULTU r6, r1 with r6 = 0x12340000 and
\* r1 = 100, a product of 35 bits
C10_Witness ==
    /\ last.op = "exec"
    /\ last.ins = RType(0, 0, 3, 0, 18)
    /\ cpu.gpr[6] = Hex32(18, 52, 0, 0)
    /\ cpu.gpr[1] = FromInt(100)
    /\ cpu.hi = FromInt(7)
    /\ cpu.lo = Hex32(28, 80, 0, 0)
    /\ cpu.gpr[3] = cpu.lo

\* a & 0x1FFFFFFF for a in [0x80000000, 0xBFFFFFFF] and a for any other a below
\* 2^32; an address of more bits counts by its low 32 bits
C11_Phys(a) ==
    LET v == Mask32(a)
    IN  IF Digit(v, 4) \in 128..191
        THEN Norm(<<Digit(v, 1), Digit(v, 2), Digit(v, 3), Digit(v, 4) % 32>>)
        ELSE v

C11_OutsideWindow(a) == Digit(Mask32(a), 4) \notin 16..19

\* a and b lie outside the image window and translate to the same physical
\* offset p with p + 4 <= size of the working memory
C11_Aliases(a, b) ==
    /\ C11_OutsideWindow(a)
    /\ C11_OutsideWindow(b)
    /\ C11_Phys(a) = C11_Phys(b)
    /\ Le(Add(C11_Phys(a), FromInt(4)), FromInt(RdramLen))

\* C11: virtual_to_physical(a) is a & 0x1FFFFFFF for a in [0x80000000,
\* 0xBFFFFFFF] and a for every other 32-bit a, and read32(b) directly after
\* write32(a, v), a and b being aliases of one in-range offset outside the image
\* window, returns v mod 2^32
C11_AliasRoundTrip ==
    [][/\ last'.op \in {"read32", "write32"}
            => virtual_to_physical(last'.addr) = C11_Phys(last'.addr)
       /\ (last.op = "write32" /\ last'.op = "read32" /\ C11_Aliases(last.addr, last'.addr))
            => last'.ret = Some(Mask32(last.val))]_vars

\* 0x007FFFFC has been read directly after the write of 0x1AABBCCDD to
\* 0x807FFFFC, another alias of the last word of the working memory
C11_Witness ==
    /\ last.op = "read32"
    /\ last.addr = Hex32(0, 127, 255, 252)
    /\ last.wrote = <<Hex32(128, 127, 255, 252), <<221, 204, 187, 170, 1>>>>
    /\ C11_Aliases(last.wrote[1], last.addr)
    /\ last.ret = Some(Hex32(170, 187, 204, 221))

\* q = p + 4 + 4 * s for a signed integer s
C12_IsTarget(q, p, s) ==
    IF s >= 0 THEN q = Add(Add(p, FromInt(4)), FromInt(4 * s))
    ELSE Add(q, FromInt(4 * (0 - s))) = Add(p, FromInt(4))

C12_Taken(gpr, w) ==
    \/ OpOf(w) = 4 /\ gpr[RsOf(w)] = gpr[RtOf(w)]
    \/ OpOf(w) = 5 /\ gpr[RsOf(w)] # gpr[RtOf(w)]

\* C12: a step that executes BEQ with rs = rt or BNE with rs # rt ends with
\* pc = old pc + 4 + 4 * s, s the signed immediate; with the condition false it
\* ends with pc = old next_pc; neither changes a register, hi, lo or memory
C12_BranchTarget ==
    [][(last'.op = "step" /\ OpOf(last'.ins) \in {4, 5})
          => /\ IF C12_Taken(cpu.gpr, last'.ins)
                THEN C12_IsTarget(cpu'.pc, cpu.pc, SImmOf(last'.ins))
                ELSE cpu'.pc = cpu.next_pc
             /\ cpu'.gpr = cpu.gpr
             /\ cpu'.hi = cpu.hi
             /\ cpu'.lo = cpu.lo
             /\ mem' = mem]_vars

\* C13: a step that executes JR or JALR, whatever rs and rd (rd = rs included),
\* ends with pc equal to the value register rs held before the step; JALR with
\* rd other than 0 also leaves rd = old pc + 8
C13_RegisterJump ==
    [][(last'.op = "step" /\ OpOf(last'.ins) = 0 /\ FnOf(last'.ins) \in {8, 9})
          => /\ cpu'.pc = cpu.gpr[RsOf(last'.ins)]
             /\ (FnOf(last'.ins) = 9 /\ RdOf(last'.ins) # 0)
                    => cpu'.gpr[RdOf(last'.ins)] = Add(cpu.pc, FromInt(8))]_vars

\* C14: the image buffer keeps the length it was constructed with, whatever
\* the lengths of the inputs loaded (the working memory is never resized: no
\* operation assigns it or stores outside its bounds)
C14_FixedCapacity == mem.rom_len = RomLen

C15_IsLoad(l) == l.op \in {"load", "load_rom_data"}

\* n >= 4, n <= image capacity, recognized first byte
C15_Loadable(raw) ==
    /\ RawLen(raw) >= 4
    /\ RawLen(raw) <= RomLen
    /\ RawByte(raw, 0) \in {128, 55, 64}

\* byte i of the normalized input: the input's byte i for first byte 0x80; for
\* 0x37 and 0x40 the mirrored byte of its group if the group is complete
C15_Normalized(raw, i) ==
    LET g == 4 * (i \div 4)
    IN  IF RawByte(raw, 0) # 128 /\ g + 4 <= RawLen(raw)
        THEN RawByte(raw, g + 3 - (i % 4))
        ELSE RawByte(raw, i)

\* C15: a successful load_rom_data of n bytes returns n, sets image[0..n) to
\* the normalized input, leaves image[n..) and the image's length as they were,
\* and leaves the working memory and the CPU as they were (under Cat64GUI.load_rom,
\* which then seeds pc and next_pc, the rest of the CPU)
C15_LoadFrame ==
    [][(C15_IsLoad(last') /\ C15_Loadable(last'.raw))
          => /\ last'.ret = Some(RawLen(last'.raw))
             /\ \A i \in 0..Max(Len(mem.rom), Max(Len(mem'.rom), RawLen(last'.raw))) :
                    RomByte(mem', i) = IF i < RawLen(last'.raw)
                                       THEN C15_Normalized(last'.raw, i)
                                       ELSE RomByte(mem, i)
             /\ mem'.rom_len = mem.rom_len
             /\ mem'.rdram = mem.rdram
             /\ last'.op = "load_rom_data" => cpu' = cpu
             /\ last'.op = "load" => cpu' = [cpu EXCEPT !.pc = cpu'.pc, !.next_pc = cpu'.next_pc]]_vars

\* the nine bytes 37 80 40 12 01 02 03 04 09 have been loaded over the 64-byte
\* program: two groups reversed, the ninth byte as it was, the program's tail kept
C15_Witness ==
    /\ last.op = "load_rom_data"
    /\ last.raw = Bytes(<<55, 128, 64, 18, 1, 2, 3, 4, 9>>)
    /\ last.ret = Some(9)
    /\ Len(mem.rom) = 64
    /\ SubSeq(mem.rom, 1, 9) = <<18, 64, 128, 55, 4, 3, 2, 1, 9>>
    /\ SubSeq(mem.rom, 10, 64) = SubSeq(Program, 10, 64)

\* C19: every general register holds a value below 2^64 (link values written
\* by JAL and JALR included), and hi and lo each a value below 2^32
C19_RegisterWidth ==
    /\ \A i \in 0..31 : Len(cpu.gpr[i]) <= 8
    /\ Len(cpu.hi) <= 4
    /\ Len(cpu.lo) <= 4

\* C20: after construction and after every completed reset, step and
\* successful load through Cat64GUI.load_rom, next_pc = pc + 4
C20_LockStep ==
    (last.op \in {"init", "reset", "step"} \/ (last.op = "load" /\ last.ret # None))
        => cpu.next_pc = Add(cpu.pc, FromInt(4))

\* a step has completed after JR r1 with r1 = 0 was executed by itself: the
\* step moved the jump target 0 into pc
C20_Witness ==
    /\ last.op = "step"
    /\ cpu.cycles = 2
    /\ cpu.pc = Zero
    /\ cpu.next_pc = FromInt(4)

\* C16: a step of the loop thread during which exactly one reset ran ends in
\* the state of the two executed one after the other in some order: the reset
\* state if the reset is ordered last, the reset state stepped once if first
C16_Atomic ==
    [][\A t \in Threads :
          (threads[t].at = "set_next" /\ threads'[t].at = "sleep"
             /\ threads[t].during = "reset")
              => cpu' \in {CpuInit, step(CpuInit, mem).cpu}]_vars

C17_Quiet == \A t \in Threads : ~Live(threads[t])

C17_After(at) ==
    CASE at = "execute" -> "set_pc"
      [] at = "set_pc" -> "set_next"
      [] at = "set_next" -> "sleep"
      [] OTHER -> at

C17_Foreground == {"run", "stop", "reset", "step", "load", "tests"}

\* C17: a thread inside a step goes on to the step's next statement and
\* nowhere else; a thread begins at most one step with the flag clear unless
\* run sets the flag again; if the flag stays clear from some point on, every
\* thread started reaches the end of its loop and stays there; and with no
\* thread in its loop the CPU and the memory change only by a command
C17_StopTakesEffect ==
    /\ [][\A t \in Threads :
             InStep(threads[t]) => threads'[t].at \in {threads[t].at, C17_After(threads[t].at)}]_vars
    /\ [](\A t \in Threads : threads[t].begun <= 1)
    /\ (<>[](~cpu.running) => <>[]C17_Quiet)
    /\ [][(C17_Quiet /\ (cpu' # cpu \/ mem' # mem)) => last'.op \in C17_Foreground]_vars

\* the first thread has left its loop after a step it began with the flag clear
C17_Witness ==
    /\ threads[1].at = "done"
    /\ threads[1].begun = 1
    /\ ~cpu.running
    /\ cpu.cycles = 1
    /\ last.op = "loop"

\* C18: at most one thread is in the while-running loop
C18_OneDriver == Cardinality({t \in Threads : Live(threads[t])}) <= 1
====
